---- MODULE Spec2Model ----
(***************************************************************************)
(* Client-side content discovery layer of the portfolio site:              *)
(*   - the tag filter engine of src/src/scripts/filter.ts (FilterInstance, *)
(*     lines 300-722, the current snapshot of the script);                 *)
(*   - the Pagefind loader of src/src/utils/search.ts.                     *)
(* Strings that the code splits, trims, sorts or joins are sequences of    *)
(* one-character strings, so that these conversions are computed.          *)
(***************************************************************************)
EXTENDS Integers, Sequences, FiniteSets, TLC

(***************************************************************************)
(* Bounds of the model                                                     *)
(***************************************************************************)
\* number of handler runs whose animation-frame callbacks may be pending
MaxPendingOps == 2
\* largest step of the clock, in milliseconds
TickMs == 250

(***************************************************************************)
(* Program constants                                                       *)
(***************************************************************************)
\* filter.ts:363  this.createDebounce(() => this.updateURL(), 500)
DEBOUNCE_DELAY == 500

\* the section whose filters are modelled: `${type}-filter-tags` etc.
SectionType == "writing"

\* the elements getElements requires: `writing-filter-tags`,
\* `writing-clear-filters` and `writing-results-count`
Anchors == {"filterTags", "clearBtn", "resultsCount"}

\* what a page template of the section may render: every required element,
\* or all but one
TemplateAnchors == {Anchors} \cup {Anchors \ {a} : a \in Anchors}

\* pathnames: the index page of the section, one of its posts, the index
\* page of another section, and the home page
SectionPath == <<"/", "w">>
PostPath == <<"/", "w", "/", "p">>
OtherPath == <<"/", "k">>
HomePath == <<"/">>
Paths == {SectionPath, PostPath, OtherPath, HomePath}

\* no navigation is in progress
NoNav == [phase |-> "idle", from |-> <<>>, to |-> <<>>, tags |-> <<>>]

(***************************************************************************)
(* Strings                                                                 *)
(***************************************************************************)
\* UTF-16 code units of the characters used
Code(c) ==
  CASE c = " " -> 32
    [] c = "," -> 44
    [] c = "a" -> 97
    [] c = "b" -> 98
    [] c = "z" -> 122

IsSpace(c) == c = " "

\* tag ids; short stand-ins for ids such as "ai" and "astro"
TagA == <<"a">>
TagAB == <<"a", "b">>

\* the ids of the tag registry
TagIds == {TagA, TagAB}

\* data-tag-id of the filter buttons rendered in the control container
Controls == TagIds

\* the item elements and their `data-writing-tags` attribute; "null" is an
\* item without the attribute (getAttribute returns null)
NullAttr == [isNull |-> TRUE, val |-> <<>>]
Attr(s) == [isNull |-> FALSE, val |-> s]
Items == 1..3
ItemTagsAttr(i) ==
  CASE i = 1 -> Attr(<<"a">>)
    [] i = 2 -> Attr(<<"a", "b", " ", ",", " ">>)
    [] i = 3 -> NullAttr

\* the `tags` query parameter of window.location: absent, or its decoded value
NoParam == [has |-> FALSE, val |-> <<>>]
Param(s) == [has |-> TRUE, val |-> s]

\* query strings a page may be opened with
InitialURLs ==
  { NoParam,
    Param(<<>>),
    Param(<<"a">>),
    Param(<<"a", "b", ",", "a">>),
    Param(<<" ", "a", " ", ",", ",", "a", "b">>),
    Param(<<"a", ",", "a">>),
    Param(<<"z", ",", "a">>) }

Range(q) == { q[i] : i \in 1..Len(q) }

Min(a, b) == IF a < b THEN a ELSE b

\* String.prototype.split(",")
RECURSIVE SplitComma(_)
SplitComma(s) ==
  IF s = <<>> THEN << <<>> >>
  ELSE LET rest == SplitComma(Tail(s))
       IN  IF Head(s) = ","
           THEN << <<>> >> \o rest
           ELSE << <<Head(s)>> \o Head(rest) >> \o Tail(rest)

RECURSIVE TrimLeft(_)
TrimLeft(s) ==
  IF s # <<>> /\ IsSpace(Head(s)) THEN TrimLeft(Tail(s)) ELSE s

RECURSIVE TrimRight(_)
TrimRight(s) ==
  IF s # <<>> /\ IsSpace(s[Len(s)]) THEN TrimRight(SubSeq(s, 1, Len(s) - 1)) ELSE s

\* String.prototype.trim
Trim(s) == TrimRight(TrimLeft(s))

\* Array.prototype.filter(Boolean) on strings: the empty string is falsy
RECURSIVE FilterBoolean(_)
FilterBoolean(q) ==
  IF q = <<>> THEN <<>>
  ELSE IF Head(q) = <<>> THEN FilterBoolean(Tail(q))
       ELSE <<Head(q)>> \o FilterBoolean(Tail(q))

MapTrim(q) == [i \in 1..Len(q) |-> Trim(q[i])]

\* str.split(",").map((t) => t.trim()).filter(Boolean)
ParseTagList(s) == FilterBoolean(MapTrim(SplitComma(s)))

\* a JavaScript Set keeps insertion order: a sequence without duplicates
SetAdd(q, t) == IF t \in Range(q) THEN q ELSE Append(q, t)

RECURSIVE SetDelete(_, _)
SetDelete(q, t) ==
  IF q = <<>> THEN <<>>
  ELSE IF Head(q) = t THEN Tail(q)
       ELSE <<Head(q)>> \o SetDelete(Tail(q), t)

RECURSIVE SetAddAll(_, _)
SetAddAll(q, ts) ==
  IF ts = <<>> THEN q ELSE SetAddAll(SetAdd(q, Head(ts)), Tail(ts))

\* the default comparison of Array.prototype.sort: by UTF-16 code units
RECURSIVE StrLess(_, _)
StrLess(s, t) ==
  IF s = <<>> THEN t # <<>>
  ELSE IF t = <<>> THEN FALSE
  ELSE IF Code(Head(s)) < Code(Head(t)) THEN TRUE
  ELSE IF Code(Head(s)) > Code(Head(t)) THEN FALSE
  ELSE StrLess(Tail(s), Tail(t))

RECURSIVE InsertSorted(_, _)
InsertSorted(x, q) ==
  IF q = <<>> THEN <<x>>
  ELSE IF StrLess(Head(q), x) THEN <<Head(q)>> \o InsertSorted(x, Tail(q))
       ELSE <<x>> \o q

\* Array.from(set).sort() without the sort: insertion order
UnsortedArray(q) == q

\* Array.from(this.activeFilters).sort()
RECURSIVE SortedArray(_)
SortedArray(q) ==
  IF q = <<>> THEN <<>> ELSE InsertSorted(Head(q), SortedArray(Tail(q)))

\* Array.prototype.join(",")
RECURSIVE Join(_)
Join(q) ==
  IF q = <<>> THEN <<>>
  ELSE IF Len(q) = 1 THEN Head(q)
       ELSE Head(q) \o <<",">> \o Join(Tail(q))

(***************************************************************************)
(* State                                                                   *)
(***************************************************************************)
VARIABLES
  url,           \* the `tags` parameter of window.location.search
  instance,      \* initializedInstances.get("filter-writing"), if any
  orphanTimers,  \* pending timeouts of instances destroyed since
  frames,        \* requestAnimationFrame callbacks not yet run, in FIFO order
  dom,           \* the section's elements: item display, count text, buttons
  last,          \* history: the handler that ran last
  snap,          \* history: what a session reached by toggles alone rendered
  anchors,       \* the required elements of the section present in the document
  pathname,      \* window.location.pathname
  currentPath,   \* the `currentPath` variable of the navigation handler
  nav            \* the client-side navigation in progress, if any

\* the document and the navigation
pageVars == <<anchors, pathname, currentPath, nav>>

filterVars ==
  <<url, instance, orphanTimers, frames, dom, last, snap, anchors, pathname,
    currentPath, nav>>

\* the search client (src/src/utils/search.ts)
VARIABLES
  pagefindInstance,  \* the module-level cache: "null" or "pagefind"
  loaderFails,       \* environment: every import of the index fails
  calls,             \* the loadPagefind calls in progress or settled, by slot
  queries,           \* the performSearch calls in progress or settled, by slot
  searchStats,       \* the counters of the global SearchStats instance
  handleWrites,      \* history: assignments to pagefindInstance since the reset
  lastQuery          \* history: how the performSearch call that ended last ended

\* the helpers of the search client (src/src/utils/search.ts)
VARIABLES
  debounced,         \* a function made by debounce(fn, delay): its timeout, and
                     \* history: the invocations and executions of the series
  highlight          \* a call of highlightSearchTerms: arguments and result

utilVars == <<debounced, highlight>>

searchVars ==
  <<pagefindInstance, loaderFails, calls, queries, searchStats, handleWrites, lastQuery,
    debounced, highlight>>

\* no instance is registered for the section
NoSession ==
  [ status |-> "none", activeFilters |-> <<>>, timers |-> {},
    elapsed |-> DEBOUNCE_DELAY, writes |-> 0, toggled |-> FALSE,
    coalesced |-> FALSE, cleared |-> FALSE, pure |-> FALSE, attached |-> FALSE ]

\* the elements as the page template renders them: the unfiltered list
InitialDom ==
  [ display |-> [i \in Items |-> ""],
    countText |-> ToString(Cardinality(Items)) \o " " \o SectionType \o " total",
    pressed |-> [c \in Controls |-> "false"],
    clearHidden |-> TRUE ]

NoSnap == [valid |-> FALSE, dom |-> InitialDom, tags |-> {}]

Ev(op, elapsed, stale, created) ==
  [ op |-> op, hadParam |-> url.has, elapsed |-> elapsed, stale |-> stale,
    created |-> created, raised |-> FALSE, afterRaise |-> created /\ last.raised,
    ran |-> 0, provider |-> "untracked", tracking |-> "untracked" ]

\* the constructor threw
EvRaised(op) == [Ev(op, 0, FALSE, FALSE) EXCEPT !.raised = TRUE]

IsLive == instance.status = "live"

\* the listeners of the registered instance are on the controls in the document
IsWired == IsLive /\ instance.attached

ActiveSet == Range(instance.activeFilters)

PendingTimers == instance.timers \cup { o.remaining : o \in orphanTimers }

MinOf(S) == CHOOSE x \in S : \A y \in S : x <= y

(***************************************************************************)
(* FilterInstance: the methods                                             *)
(***************************************************************************)
\* loadStateFromURL without the trim of the entries
loadStateNoTrim(u) ==
  IF u.has /\ u.val # <<>> THEN SetAddAll(<<>>, FilterBoolean(SplitComma(u.val))) ELSE <<>>

\* loadStateFromURL: `if (tagsParam)` skips an absent and an empty value
loadStateFromURL(u) ==
  IF u.has /\ u.val # <<>> THEN SetAddAll(<<>>, ParseTagList(u.val)) ELSE <<>>

\* updateURL that sets an empty value instead of deleting the parameter
updateURLKeepsEmpty(active, u) ==
  IF Len(active) > 0 THEN Param(Join(SortedArray(active))) ELSE Param(<<>>)

\* updateURL: the value replaceState leaves in the `tags` parameter
updateURL(active, u) ==
  IF Len(active) > 0 THEN Param(Join(SortedArray(active))) ELSE NoParam

\* a debounce that does not clear the pending timeout
debounceNoClear(timers) == timers \cup {DEBOUNCE_DELAY}

\* the function createDebounce returns, on the set of pending timeouts
\* (their remaining delays): clearTimeout(timeoutId), then setTimeout(.., delay)
createDebounce(timers) == {DEBOUNCE_DELAY}

\* itemTagsStr ? itemTagsStr.split(",").map(trim).filter(Boolean) : []
itemTags(i) ==
  LET a == ItemTagsAttr(i)
  IN  IF a.isNull \/ a.val = <<>> THEN <<>> ELSE ParseTagList(a.val)

\* visibility that requires every selected tag (AND)
isVisibleAll(hasFilters, tags, active) ==
  ~hasFilters \/ \A t \in Range(active) : t \in Range(tags)

\* !hasFilters || itemTags.some((tag) => this.activeFilters.has(tag))
isVisible(hasFilters, tags, active) ==
  ~hasFilters \/ \E k \in 1..Len(tags) : tags[k] \in Range(active)

\* updateResultsCount: the message given to setText
updateResultsCount(count, active) ==
  IF Len(active) > 0
  THEN "Showing " \o ToString(count) \o " of " \o ToString(Cardinality(Items))
         \o " " \o SectionType
  ELSE ToString(Cardinality(Items)) \o " " \o SectionType \o " total"

\* an updateUI callback that presses buttons and never releases them
updateUIFrameSticky(d, active) ==
  [d EXCEPT !.pressed = [c \in Controls |->
                           IF c \in Range(active) THEN "true" ELSE d.pressed[c]],
            !.clearHidden = (Len(active) = 0)]

\* the callback updateUI gives to requestAnimationFrame
updateUIFrame(d, active) ==
  [d EXCEPT !.pressed = [c \in Controls |->
                           IF c \in Range(active) THEN "true" ELSE "false"],
            !.clearHidden = (Len(active) = 0)]

\* the callback filterItems gives to requestAnimationFrame; hasFilters was
\* captured when filterItems was called, activeFilters is read when it runs
filterItemsFrame(d, hasFilters, active) ==
  LET vis == { i \in Items : isVisible(hasFilters, itemTags(i), active) }
  IN  [d EXCEPT !.display = [i \in Items |-> IF i \in vis THEN "" ELSE "none"],
                !.countText = updateResultsCount(Cardinality(vis), active)]

\* what updateUI() followed by filterItems() add to the callback queue; a
\* callback reads the activeFilters of the object that scheduled it: of the
\* registered instance, or of a destroyed one (kept in `active`)
Scheduled(active) ==
  << [owner |-> "live", kind |-> "updateUI", hasFilters |-> FALSE, active |-> <<>>,
      attached |-> TRUE],
     [owner |-> "live", kind |-> "filterItems", hasFilters |-> Len(active) > 0,
      active |-> <<>>, attached |-> TRUE] >>

\* a callback writes to the elements its object captured in getElements;
\* once these have left the document the writes are not seen
RunCallback(d, cb, S) ==
  LET active == IF cb.owner = "live" THEN S.activeFilters ELSE cb.active
      attached == IF cb.owner = "live" THEN S.attached ELSE cb.attached
  IN  IF ~attached THEN d
      ELSE IF cb.kind = "updateUI"
      THEN updateUIFrame(d, active)
      ELSE filterItemsFrame(d, cb.hasFilters, active)

\* the callbacks of one frame run last-registered first
RECURSIVE RunAllReversed(_, _, _)
RunAllReversed(d, q, S) ==
  IF q = <<>> THEN d ELSE RunCallback(RunAllReversed(d, Tail(q), S), Head(q), S)

\* one frame: the callbacks run in the order requestAnimationFrame got them
RECURSIVE RunAll(_, _, _)
RunAll(d, q, S) ==
  IF q = <<>> THEN d ELSE RunAll(RunCallback(d, Head(q), S), Tail(q), S)

\* what the page offers to trackEvent: no provider ("null"), a provider
\* whose call returns, a provider whose call throws
Analytics == {"null", "returns", "throws"}

\* trackEvent without the try/catch around the provider call
trackEventUnguarded(p) ==
  IF p = "null" THEN "skipped" ELSE IF p = "throws" THEN "escaped" ELSE "sent"

\* trackEvent: how the call ends: no provider is logged and skipped, an
\* error of the provider call is caught and logged
trackEvent(p) ==
  IF p = "null" THEN "skipped" ELSE IF p = "throws" THEN "caught" ELSE "sent"

\* trackFilterChange(type, tagId, active): trackEvent("filter_change", ..)
trackFilterChange(p) == trackEvent(p)

\* trackFilterClear(type, previousCount): trackEvent("filter_clear", ..)
trackFilterClear(p) == trackEvent(p)

\* getElements that requires the control container only
getElementsLenient(present) == "filterTags" \in present

\* getElements: TRUE when it returns, FALSE when it throws because a
\* required element is not in the document
getElements(present) == Anchors \subseteq present

\* isValid() that never finds the container
isValidNever(present) == FALSE

\* isValid(): document.getElementById(filterTagsId) !== null
isValid(present) == "filterTags" \in present

\* the constructor: loadStateFromURL, attachEventListeners, updateUI, filterItems
NewSession(u) ==
  [ status |-> "live", activeFilters |-> loadStateFromURL(u), timers |-> {},
    elapsed |-> DEBOUNCE_DELAY, writes |-> 0, toggled |-> FALSE,
    coalesced |-> FALSE, cleared |-> FALSE, pure |-> ~u.has, attached |-> TRUE ]

\* toggleFilter(tagId) on the object
toggleFilter(S, tagId) ==
  LET wasActive == tagId \in Range(S.activeFilters)
  IN  [S EXCEPT !.activeFilters = IF wasActive THEN SetDelete(@, tagId)
                                  ELSE SetAdd(@, tagId),
                !.timers = createDebounce(@),
                !.elapsed = 0, !.writes = 0, !.toggled = TRUE,
                !.coalesced = (S.elapsed < DEBOUNCE_DELAY),
                !.cleared = FALSE,
                !.pure = @ /\ ~wasActive]

\* clearAllFilters on the object: activeFilters.clear()
clearAllFilters(S) ==
  [S EXCEPT !.activeFilters = <<>>, !.cleared = TRUE, !.pure = FALSE]

\* destroy(): abortController.abort(); activeFilters.clear(). The timeout of
\* the debounce and the callbacks given to requestAnimationFrame stay.
destroy(S) ==
  [S EXCEPT !.status = "destroyed", !.activeFilters = <<>>]

\* the timeouts a destroyed object leaves behind
OrphansOf(D) ==
  { [remaining |-> t, elapsed |-> D.elapsed, active |-> D.activeFilters] : t \in D.timers }

\* the callbacks of the registered instance, once it is the destroyed object D
Orphaned(q, D) ==
  [k \in 1..Len(q) |->
     IF q[k].owner = "live"
     THEN [q[k] EXCEPT !.owner = "destroyed", !.active = D.activeFilters,
                       !.attached = D.attached]
     ELSE q[k]]

CanSchedule == Len(frames) + 2 <= 2 * MaxPendingOps

(***************************************************************************)
(* Initial state: the page is loaded, its script has not run yet           *)
(***************************************************************************)
FilterInit ==
  /\ url \in InitialURLs
  /\ instance = NoSession
  /\ orphanTimers = {}
  /\ frames = <<>>
  /\ dom = InitialDom
  /\ last = [op |-> "load", hadParam |-> FALSE, elapsed |-> 0, stale |-> FALSE,
             created |-> FALSE, raised |-> FALSE, afterRaise |-> FALSE,
             ran |-> 0, provider |-> "untracked", tracking |-> "untracked"]
  /\ snap = NoSnap
  /\ anchors \in TemplateAnchors
  /\ pathname = SectionPath
  /\ currentPath = SectionPath
  /\ nav = NoNav

(***************************************************************************)
(* Handlers                                                                *)
(***************************************************************************)
\* initializeFilters("writing"): an existing instance that is valid is
\* kept; one that is not is destroyed and removed. Then the constructor
\* runs, and the instance is registered unless getElements throws; the error
\* is caught and logged.
Replaced == IsLive /\ ~isValid(anchors)

initializeFilters ==
  \/ /\ IsLive
     /\ isValid(anchors)
     /\ last' = Ev("initializeFilters", 0, FALSE, FALSE)
     /\ UNCHANGED <<url, instance, orphanTimers, frames, dom, snap, pageVars, searchVars>>
  \/ /\ ~IsLive \/ ~isValid(anchors)
     /\ getElements(anchors)
     /\ CanSchedule
     /\ instance' = NewSession(url)
     /\ orphanTimers' = IF Replaced THEN orphanTimers \cup OrphansOf(destroy(instance))
                        ELSE orphanTimers
     /\ frames' = (IF Replaced THEN Orphaned(frames, destroy(instance)) ELSE frames)
                    \o Scheduled(instance'.activeFilters)
     /\ last' = Ev("initializeFilters", 0, FALSE, TRUE)
     /\ UNCHANGED <<url, dom, snap, pageVars, searchVars>>
  \/ /\ ~IsLive \/ ~isValid(anchors)
     /\ ~getElements(anchors)
     /\ instance' = NoSession
     /\ orphanTimers' = IF Replaced THEN orphanTimers \cup OrphansOf(destroy(instance))
                        ELSE orphanTimers
     /\ frames' = IF Replaced THEN Orphaned(frames, destroy(instance)) ELSE frames
     /\ last' = EvRaised("initializeFilters")
     /\ UNCHANGED <<url, dom, snap, pageVars, searchVars>>

\* the body shared by handleFilterClick and handleKeyDown: the listeners of
\* an aborted controller are gone, so the event reaches a live object only
Activate(op, tagId, p) ==
  \/ /\ ~IsWired
     /\ last' = Ev(op, 0, TRUE, FALSE)
     /\ UNCHANGED <<url, instance, orphanTimers, frames, dom, snap, pageVars, searchVars>>
  \/ /\ IsWired
     /\ CanSchedule
     /\ instance' = toggleFilter(instance, tagId)
     /\ frames' = frames \o Scheduled(instance'.activeFilters)
     /\ last' = [Ev(op, 0, FALSE, FALSE) EXCEPT !.provider = p, !.tracking = trackFilterChange(p)]
     /\ snap' = NoSnap
     /\ UNCHANGED <<url, orphanTimers, dom, pageVars, searchVars>>

\* handleFilterClick on the button of a tag
ClickControl(c, p) == Activate("Click", c, p)

\* handleKeyDown on the focused button of a tag
KeyDown(c, key, p) ==
  \/ /\ key \in {"Enter", " "}
     /\ Activate("KeyDown", c, p)
  \/ /\ key \notin {"Enter", " "}
     /\ last' = Ev("KeyIgnored", 0, ~IsWired, FALSE)
     /\ UNCHANGED <<url, instance, orphanTimers, frames, dom, snap, pageVars, searchVars>>

\* handleClearAll: clearAllFilters, updateUI, filterItems, updateURL, and
\* trackFilterClear last
ClickClearAll(p) ==
  \/ /\ ~IsWired
     /\ last' = Ev("ClearAll", 0, TRUE, FALSE)
     /\ UNCHANGED <<url, instance, orphanTimers, frames, dom, snap, pageVars, searchVars>>
  \/ /\ IsWired
     /\ CanSchedule
     /\ instance' = clearAllFilters(instance)
     /\ frames' = frames \o Scheduled(instance'.activeFilters)
     /\ url' = updateURL(instance'.activeFilters, url)
     /\ last' = [Ev("ClearAll", 0, FALSE, FALSE) EXCEPT !.provider = p, !.tracking = trackFilterClear(p)]
     /\ snap' = NoSnap
     /\ UNCHANGED <<orphanTimers, dom, pageVars, searchVars>>

\* one animation frame: every callback registered so far runs, in order
RunFrame ==
  /\ frames # <<>>
  /\ dom' = RunAll(dom, frames, instance)
  /\ frames' = <<>>
  /\ last' = [Ev("RunFrame", 0, \A k \in 1..Len(frames) : frames[k].owner = "destroyed",
                 FALSE) EXCEPT !.ran = Len(frames)]
  /\ UNCHANGED <<url, instance, orphanTimers, snap, pageVars, searchVars>>

\* the timeout of the registered instance's debounce expires: fn(), that is
\* updateURL(); timeoutId = null
TimerFire ==
  /\ 0 \in instance.timers
  /\ url' = updateURL(instance.activeFilters, url)
  /\ instance' = [instance EXCEPT !.timers = @ \ {0}, !.writes = Min(@ + 1, 2)]
  /\ last' = Ev("TimerFire", instance.elapsed, FALSE, FALSE)
  /\ UNCHANGED <<orphanTimers, frames, dom, snap, pageVars, searchVars>>

\* the timeout of a destroyed instance's debounce expires: updateURL() on
\* the destroyed object
OrphanTimerFire(o) ==
  /\ o \in orphanTimers
  /\ o.remaining = 0
  /\ url' = updateURL(o.active, url)
  /\ orphanTimers' = orphanTimers \ {o}
  /\ last' = Ev("TimerFire", o.elapsed, TRUE, FALSE)
  /\ UNCHANGED <<instance, frames, dom, snap, pageVars, searchVars>>

\* time passes, up to the next timeout; an animation frame is shorter than
\* a step of the clock, so pending callbacks run first
Advance ==
  /\ PendingTimers # {}
  /\ 0 \notin PendingTimers
  /\ frames = <<>>
  /\ LET d == Min(TickMs, MinOf(PendingTimers))
     IN  /\ instance' = [instance EXCEPT !.timers = { t - d : t \in @ },
                                         !.elapsed = Min(@ + d, DEBOUNCE_DELAY)]
         /\ orphanTimers' = { [o EXCEPT !.remaining = @ - d,
                                        !.elapsed = Min(@ + d, DEBOUNCE_DELAY)] :
                              o \in orphanTimers }
  /\ last' = Ev("Advance", 0, FALSE, FALSE)
  /\ UNCHANGED <<url, frames, dom, snap, pageVars, searchVars>>

\* destroyFilter("writing"), and destroyAllFilters on a navigation that
\* keeps the document: instance.destroy(), then the registry entry goes
destroyFilter ==
  \/ /\ ~IsLive
     /\ last' = Ev("destroyFilter", 0, TRUE, FALSE)
     /\ UNCHANGED <<url, instance, orphanTimers, frames, dom, snap, pageVars, searchVars>>
  \/ /\ IsLive
     /\ orphanTimers' = orphanTimers \cup OrphansOf(destroy(instance))
     /\ frames' = Orphaned(frames, destroy(instance))
     /\ instance' = NoSession
     /\ last' = Ev("destroyFilter", 0, FALSE, FALSE)
     /\ snap' = NoSnap
     /\ UNCHANGED <<url, dom, pageVars, searchVars>>

\* the page is loaded anew with the query string u and the required
\* elements a: beforeunload runs destroyAllFilters, the old page's timers
\* and callbacks go with it, the template is rendered again and the page
\* script calls initializeFilters
LoadPage(op, u, a) ==
  /\ url' = u
  /\ anchors' = a
  /\ instance' = IF getElements(a) THEN NewSession(u) ELSE NoSession
  /\ orphanTimers' = {}
  /\ frames' = IF getElements(a) THEN Scheduled(instance'.activeFilters) ELSE <<>>
  /\ dom' = InitialDom
  /\ last' = IF getElements(a) THEN Ev(op, 0, FALSE, TRUE) ELSE EvRaised(op)
  /\ UNCHANGED <<pathname, currentPath, nav>>

\* the user reloads the page
Reload ==
  /\ LoadPage("Reload", url, anchors)
  /\ snap' = NoSnap
  /\ UNCHANGED searchVars

\* the tags a `tags` value lists: the comma-separated entries, without the
\* whitespace around them, the empty ones dropped
TagSetOf(str) ==
  LET n == Len(str)
      NoComma(i, j) == \A k \in i..j : str[k] # ","
      Blank(i, j) == \A k \in i..j : str[k] = " "
      Starts(i) == \E p \in 1..i : (p = 1 \/ str[p - 1] = ",") /\ Blank(p, i - 1)
      Ends(j) == \E p \in j..n : (p = n \/ str[p + 1] = ",") /\ Blank(j + 1, p)
  IN  { SubSeq(str, ij[1], ij[2]) :
          ij \in { x \in (1..n) \X (1..n) :
                     /\ x[1] <= x[2]
                     /\ NoComma(x[1], x[2])
                     /\ str[x[1]] # " " /\ str[x[2]] # " "
                     /\ Starts(x[1]) /\ Ends(x[2]) } }

\* the user opens the page with another query string; the rendering of a
\* session that got its tags by toggling each once is kept for comparison
OpenURL(u, a) ==
  /\ LoadPage("OpenURL", u, a)
  /\ snap' = IF /\ IsLive
                /\ instance.pure
                /\ frames = <<>>
                /\ u.has
                /\ getElements(a)
                /\ TagSetOf(u.val) = ActiveSet
             THEN [valid |-> TRUE, dom |-> dom, tags |-> ActiveSet]
             ELSE NoSnap
  /\ UNCHANGED searchVars

(***************************************************************************)
(* Client-side navigation                                                  *)
(***************************************************************************)
\* String.prototype.split("/")
RECURSIVE SplitSlash(_)
SplitSlash(s) ==
  IF s = <<>> THEN << <<>> >>
  ELSE LET rest == SplitSlash(Tail(s))
       IN  IF Head(s) = "/"
           THEN << <<>> >> \o rest
           ELSE << <<Head(s)>> \o Head(rest) >> \o Tail(rest)

\* path.replace(/^\/|\/$/g, ""): one leading and one trailing slash go
StripSlashes(path) ==
  LET a == IF path # <<>> /\ Head(path) = "/" THEN Tail(path) ELSE path
  IN  IF a # <<>> /\ a[Len(a)] = "/" THEN SubSeq(a, 1, Len(a) - 1) ELSE a

\* getBaseSection: segments[0] || "home"
getBaseSection(path) ==
  LET segments == SplitSlash(StripSlashes(path))
  IN  IF segments[1] # <<>> THEN segments[1] ELSE <<"h", "o", "m", "e">>

\* the required elements in the document of a page: the index page of the
\* section renders them, the other pages do not
PageAnchors(path) == IF path = SectionPath THEN Anchors ELSE {}

\* how a navigation starts: by a link or navigate(), and then the history
\* entry is pushed after the new document is in place; or by a history
\* traversal, and then window.location has changed before the events
NavKinds == {"push", "traverse"}

\* the `tags` parameter of the destination: links to the index page of the
\* section may carry a tag, the other pages take none
NavQueries(to) == IF to = SectionPath THEN {NoParam, Param(<<"a">>)} ELSE {NoParam}

\* cleanupStaleFilters() that finds no instance stale
cleanupNothing == FALSE

\* cleanupStaleFilters() removes the registered instance
cleanupStaleFilters == IsLive /\ ~isValid(anchors)

\* smartCleanup(fromPath, toPath) removes the registered instance: a stale
\* one when the base section stays, any when it changes
smartCleanup(fromPath, toPath) ==
  IF getBaseSection(fromPath) = getBaseSection(toPath)
  THEN cleanupStaleFilters
  ELSE IsLive

\* instance.destroy() and initializedInstances.delete(key) when `removes`
Teardown(removes) ==
  /\ instance' = IF removes THEN NoSession ELSE instance
  /\ orphanTimers' = IF removes THEN orphanTimers \cup OrphansOf(destroy(instance))
                     ELSE orphanTimers
  /\ frames' = IF removes THEN Orphaned(frames, destroy(instance)) ELSE frames

\* the astro:before-preparation handler at the start of a navigation to
\* `to`: nextPath = window.location.pathname; smartCleanup(currentPath,
\* nextPath); currentPath = nextPath. A navigation changes the pathname or
\* the query string.
BeforePreparation(to, q, kind) ==
  /\ nav.phase = "idle"
  /\ to # pathname \/ q # url
  /\ LET nextPath == IF kind = "traverse" THEN to ELSE pathname
     IN  /\ Teardown(smartCleanup(currentPath, nextPath))
         /\ currentPath' = nextPath
         /\ pathname' = nextPath
  /\ url' = IF kind = "traverse" THEN q ELSE url
  /\ nav' = [phase |-> "prepared", from |-> pathname, to |-> to, tags |-> q.val]
  /\ last' = Ev("BeforePreparation", 0, FALSE, FALSE)
  /\ snap' = NoSnap
  /\ UNCHANGED <<dom, anchors, searchVars>>

\* the document of the destination replaces the old one and the location
\* is the destination's: the elements captured before are not in the
\* document any more
Swap ==
  /\ nav.phase = "prepared"
  /\ anchors' = PageAnchors(nav.to)
  /\ dom' = InitialDom
  /\ instance' = [instance EXCEPT !.attached = FALSE]
  /\ frames' = [k \in 1..Len(frames) |-> [frames[k] EXCEPT !.attached = FALSE]]
  /\ pathname' = nav.to
  /\ url' = IF nav.tags = <<>> THEN NoParam ELSE Param(nav.tags)
  /\ nav' = NoNav
  /\ last' = Ev("Swap", 0, FALSE, FALSE)
  /\ snap' = NoSnap
  /\ UNCHANGED <<orphanTimers, currentPath, searchVars>>

\* the callback of setInterval(.., 5000): cleanupStaleFilters()
cleanupInterval ==
  \/ /\ cleanupStaleFilters
     /\ Teardown(TRUE)
     /\ last' = Ev("cleanupInterval", 0, FALSE, FALSE)
     /\ snap' = NoSnap
     /\ UNCHANGED <<url, dom, pageVars, searchVars>>
  \/ /\ ~cleanupStaleFilters
     /\ last' = Ev("cleanupInterval", 0, TRUE, FALSE)
     /\ UNCHANGED <<url, instance, orphanTimers, frames, dom, snap, pageVars, searchVars>>

\* the pages of the navigation runs load no analytics provider: what
\* trackEvent does leaves the session and the document as they are
NavNext ==
  \/ initializeFilters
  \/ \E c \in Controls : ClickControl(c, "null")
  \/ ClickClearAll("null")
  \/ RunFrame
  \/ TimerFire
  \/ \E o \in orphanTimers : OrphanTimerFire(o)
  \/ Advance
  \/ \E to \in Paths, kind \in NavKinds :
       \E q \in NavQueries(to) : BeforePreparation(to, q, kind)
  \/ Swap
  \/ cleanupInterval

FilterNext ==
  \/ initializeFilters
  \/ \E c \in Controls, p \in Analytics : ClickControl(c, p)
  \/ \E c \in Controls, key \in {"Enter", " ", "Tab"}, p \in Analytics : KeyDown(c, key, p)
  \/ \E p \in Analytics : ClickClearAll(p)
  \/ RunFrame
  \/ TimerFire
  \/ \E o \in orphanTimers : OrphanTimerFire(o)
  \/ Advance
  \/ destroyFilter
  \/ Reload
  \/ \E u \in InitialURLs, a \in TemplateAnchors : OpenURL(u, a)

(***************************************************************************)
(* Search client: the Pagefind loader of src/src/utils/search.ts           *)
(***************************************************************************)
\* search.ts:19
DEFAULT_RETRY_ATTEMPTS == 3

\* number of loadPagefind calls that may overlap
MaxCalls == 2
\* largest `retries` argument passed
MaxRetries == 3

CallIds == 1..MaxCalls

\* the `retries` argument: omitted (the default applies), or a number,
\* which may be zero or negative
RetriesArgs ==
  {[given |-> FALSE, n |-> 0]} \cup {[given |-> TRUE, n |-> k] : k \in (-1)..MaxRetries}

RetriesOf(arg) == IF arg.given THEN arg.n ELSE DEFAULT_RETRY_ATTEMPTS

\* a slot no call has used yet
NoCall == [pc |-> "idle", retries |-> 0, attempt |-> 0, imports |-> 0, afterReject |-> FALSE]

\* a loop that stops one attempt early
loopStopsEarly(attempt, retries) == attempt < retries

\* a loop that tests its condition after the first attempt (do .. while)
loopAtLeastOnce(attempt, retries) == attempt = 1 \/ attempt <= retries

\* for (let attempt = 1; attempt <= retries; attempt++)
loopCondition(attempt, retries) == attempt <= retries

\* if (attempt < retries) await new Promise(... setTimeout(resolve, delay))
sleepsBeforeRetry(attempt, retries) == attempt < retries

\* entering the loop body at `attempt`, or leaving the loop and throwing
LoopStep(C, attempt) ==
  IF loopCondition(attempt, C.retries)
  THEN [C EXCEPT !.pc = "importing", !.attempt = attempt, !.imports = @ + 1]
  ELSE [C EXCEPT !.pc = "rejected", !.attempt = attempt]

\* new SearchStats(): searches, totalResults and failedSearches are 0
NoStats == [searches |-> 0, totalResults |-> 0, failedSearches |-> 0]

\* the performSearch calls modelled: one at a time, in the slot of its
\* loadPagefind call
QueryIds == {1}

\* a slot no performSearch call has used yet
NoQuery ==
  [ pc |-> "idle", query |-> [isString |-> TRUE, text |-> <<>>],
    maxResults |-> [given |-> FALSE, n |-> 0] ]

NoLastQuery ==
  [ kind |-> "none", outcome |-> "none", text |-> <<>>, isString |-> TRUE,
    maxResults |-> [given |-> FALSE, n |-> 0], handles |-> <<>>,
    started |-> 0, result |-> <<>>, retries |-> 0, imports |-> 0 ]

Settled(pc) == pc \in {"idle", "resolved", "rejected"}

SearchInit ==
  /\ pagefindInstance = "null"
  /\ loaderFails \in BOOLEAN
  /\ calls = [c \in CallIds |-> NoCall]
  /\ queries = [q \in QueryIds |-> NoQuery]
  /\ searchStats = NoStats
  /\ handleWrites = 0
  /\ lastQuery = NoLastQuery

\* the body of loadPagefind(retries, delay) up to its first await: the cached
\* instance is returned, or the loop starts with the dynamic import
StartLoad(c, arg) ==
  LET C == [NoCall EXCEPT !.retries = RetriesOf(arg),
                          !.afterReject = (calls[c].pc = "rejected")]
  IN  [calls EXCEPT ![c] =
         IF pagefindInstance # "null"
         THEN [C EXCEPT !.pc = "resolved"]
         ELSE LoopStep(C, 1)]

\* loadPagefind(retries, delay) is called directly (a preload)
loadPagefind(c, arg) ==
  /\ Settled(calls[c].pc)
  /\ c \in QueryIds => Settled(queries[c].pc)
  /\ calls' = StartLoad(c, arg)
  /\ UNCHANGED <<pagefindInstance, loaderFails, queries, searchStats, handleWrites,
                 lastQuery, utilVars, filterVars>>

\* the import settles with a valid module: it is cached and returned
ImportSucceeds(c) ==
  /\ calls[c].pc = "importing"
  /\ ~loaderFails
  /\ pagefindInstance' = "pagefind"
  /\ handleWrites' = handleWrites + 1
  /\ calls' = [calls EXCEPT ![c].pc = "resolved"]
  /\ UNCHANGED <<loaderFails, queries, searchStats, lastQuery, utilVars, filterVars>>

\* the import rejects, or the module has no search function: the catch
\* block waits for the delay before another attempt, or the loop goes on
ImportFails(c) ==
  /\ calls[c].pc = "importing"
  /\ calls' = [calls EXCEPT ![c] =
                 IF sleepsBeforeRetry(@.attempt, @.retries)
                 THEN [@ EXCEPT !.pc = "sleeping"]
                 ELSE LoopStep(@, @.attempt + 1)]
  /\ UNCHANGED <<pagefindInstance, loaderFails, queries, searchStats, handleWrites,
                 lastQuery, utilVars, filterVars>>

\* the delay between two attempts is over: attempt++
DelayElapses(c) ==
  /\ calls[c].pc = "sleeping"
  /\ calls' = [calls EXCEPT ![c] = LoopStep(@, @.attempt + 1)]
  /\ UNCHANGED <<pagefindInstance, loaderFails, queries, searchStats, handleWrites,
                 lastQuery, utilVars, filterVars>>

\* resetPagefind()
resetPagefind ==
  /\ pagefindInstance # "null"
  /\ pagefindInstance' = "null"
  /\ handleWrites' = 0
  /\ UNCHANGED <<loaderFails, calls, queries, searchStats, lastQuery, utilVars, filterVars>>

SearchNext ==
  \/ \E c \in CallIds, arg \in RetriesArgs : loadPagefind(c, arg)
  \/ \E c \in CallIds : ImportSucceeds(c)
  \/ \E c \in CallIds : ImportFails(c)
  \/ \E c \in CallIds : DelayElapses(c)
  \/ resetPagefind

(***************************************************************************)
(* Search client: performSearch                                            *)
(***************************************************************************)
\* largest number of result handles in an index response
MaxHandles == 3

\* the `query` argument: a value that is not a string, or a string
QueryArgs ==
  { [isString |-> FALSE, text |-> <<>>],
    [isString |-> TRUE, text |-> <<>>],
    [isString |-> TRUE, text |-> <<" ", " ">>],
    [isString |-> TRUE, text |-> <<"a">>],
    [isString |-> TRUE, text |-> <<" ", "a", " ">>] }

\* options.maxResults: omitted, or a number
MaxResultsArgs ==
  {[given |-> FALSE, n |-> 0]} \cup {[given |-> TRUE, n |-> k] : k \in 0..MaxHandles}

\* what `await searchFn(validQuery)` gives: the primitive throws, the
\* response has no results array, or it lists handles in index order, each
\* with the outcome of its data(): TRUE fulfils, FALSE rejects
Responses ==
  {[kind |-> "throws", handles |-> <<>>], [kind |-> "invalid", handles |-> <<>>]}
    \cup {[kind |-> "results", handles |-> h] :
            h \in UNION {[1..n -> BOOLEAN] : n \in 0..MaxHandles}}

\* validateQuery with a trimmed.length >= 0 test
validateQueryLoose(query) ==
  IF ~query.isString THEN [isNull |-> TRUE, val |-> <<>>]
  ELSE [isNull |-> FALSE, val |-> Trim(query.text)]

\* validateQuery: null, or the trimmed string
validateQuery(query) ==
  IF ~query.isString THEN [isNull |-> TRUE, val |-> <<>>]
  ELSE LET trimmed == Trim(query.text)
       IN  IF Len(trimmed) > 0 THEN [isNull |-> FALSE, val |-> trimmed]
           ELSE [isNull |-> TRUE, val |-> <<>>]

\* options.maxResults ? response.results.slice(0, options.maxResults)
\*                    : response.results     (0 and undefined are falsy)
limitResults(handles, maxResults) ==
  IF maxResults.given /\ maxResults.n # 0
  THEN SubSeq(handles, 1, Min(maxResults.n, Len(handles)))
  ELSE handles

\* Promise.all in place of Promise.allSettled: one rejection rejects all
fulfilledOrNone(outcomes) ==
  IF \A k \in 1..Len(outcomes) : outcomes[k] THEN [k \in 1..Len(outcomes) |-> k]
  ELSE <<>>

\* loadedResults.filter(status === "fulfilled").map(value): the positions,
\* in order, of the handles whose data() fulfilled
RECURSIVE fulfilled(_)
fulfilled(outcomes) ==
  IF outcomes = <<>> THEN <<>>
  ELSE LET n == Len(outcomes)
           front == fulfilled(SubSeq(outcomes, 1, n - 1))
       IN  IF outcomes[n] THEN Append(front, n) ELSE front

Ended(kind, outcome, query, maxResults, handles, started, result) ==
  [ kind |-> kind, outcome |-> outcome, text |-> query.text, isString |-> query.isString,
    maxResults |-> maxResults, handles |-> handles, started |-> started,
    result |-> result, retries |-> 0, imports |-> 0 ]

NoArg == [isString |-> TRUE, text |-> <<>>]

\* performSearch(query, options) up to its first await
performSearch(q, query, opts) ==
  /\ Settled(queries[q].pc)
  /\ Settled(calls[q].pc)
  /\ \/ /\ validateQuery(query).isNull
        /\ queries' = [queries EXCEPT ![q] = [NoQuery EXCEPT !.pc = "resolved"]]
        /\ lastQuery' = Ended("blank", "resolved", query, opts.maxResults, <<>>, 0, <<>>)
        /\ UNCHANGED calls
     \/ /\ ~validateQuery(query).isNull
        /\ queries' = [queries EXCEPT ![q] = [pc |-> "loading", query |-> query,
                                               maxResults |-> opts.maxResults]]
        /\ calls' = StartLoad(q, opts.retries)
        /\ UNCHANGED lastQuery
  /\ UNCHANGED <<pagefindInstance, loaderFails, searchStats, handleWrites, utilVars, filterVars>>

\* `await loadPagefind(..)` settles: the search is started, or the catch
\* block logs the error and throws it again
LoadSettles(q) ==
  /\ queries[q].pc = "loading"
  /\ \/ /\ calls[q].pc = "resolved"
        /\ queries' = [queries EXCEPT ![q].pc = "searching"]
        /\ UNCHANGED lastQuery
     \/ /\ calls[q].pc = "rejected"
        /\ queries' = [queries EXCEPT ![q] = [NoQuery EXCEPT !.pc = "rejected"]]
        /\ lastQuery' = [Ended("loadFailed", "rejected", NoArg, queries[q].maxResults,
                                <<>>, 0, <<>>)
                            EXCEPT !.retries = calls[q].retries, !.imports = calls[q].imports]
  /\ calls' = [calls EXCEPT ![q] = NoCall]
  /\ UNCHANGED <<pagefindInstance, loaderFails, searchStats, handleWrites, utilVars, filterVars>>

\* `await searchFn(validQuery)` settles and, for a list of handles, so does
\* Promise.allSettled of their data(); no module state is read in between
SearchResponds(q, r) ==
  /\ queries[q].pc = "searching"
  /\ \/ /\ r.kind = "throws"
        /\ queries' = [queries EXCEPT ![q] = [NoQuery EXCEPT !.pc = "rejected"]]
        /\ lastQuery' = Ended("threw", "rejected", NoArg, queries[q].maxResults, <<>>, 0, <<>>)
     \/ /\ r.kind = "invalid"
        /\ queries' = [queries EXCEPT ![q] = [NoQuery EXCEPT !.pc = "resolved"]]
        /\ lastQuery' = Ended("invalid", "resolved", NoArg, queries[q].maxResults, <<>>, 0, <<>>)
     \/ /\ r.kind = "results"
        /\ LET results == limitResults(r.handles, queries[q].maxResults)
           IN  /\ queries' = [queries EXCEPT ![q] = [NoQuery EXCEPT !.pc = "resolved"]]
               /\ lastQuery' = Ended("results", "resolved", NoArg, queries[q].maxResults,
                                     r.handles, Len(results), fulfilled(results))
  /\ UNCHANGED <<pagefindInstance, loaderFails, calls, searchStats, handleWrites, utilVars, filterVars>>

QueryNext ==
  \/ \E q \in QueryIds, query \in QueryArgs, retries \in RetriesArgs, m \in MaxResultsArgs :
       performSearch(q, query, [retries |-> retries, maxResults |-> m])
  \/ \E q \in QueryIds : LoadSettles(q)
  \/ \E q \in QueryIds, r \in Responses : SearchResponds(q, r)
  \/ \E c \in CallIds : ImportSucceeds(c)
  \/ \E c \in CallIds : ImportFails(c)
  \/ \E c \in CallIds : DelayElapses(c)
  \/ resetPagefind

(***************************************************************************)
(* Search client: SearchStats                                              *)
(***************************************************************************)
\* largest number of recordSearch calls, and of recordFailure calls
MaxRecords == 4

\* recordSearch(resultCount): searches++, totalResults += resultCount
recordSearch(resultCount) ==
  /\ searchStats.searches < MaxRecords
  /\ searchStats' = [searchStats EXCEPT !.searches = @ + 1,
                                        !.totalResults = @ + resultCount]
  /\ UNCHANGED <<pagefindInstance, loaderFails, calls, queries, handleWrites, lastQuery,
                 utilVars, filterVars>>

\* recordFailure(): failedSearches++
recordFailure ==
  /\ searchStats.failedSearches < MaxRecords
  /\ searchStats' = [searchStats EXCEPT !.failedSearches = @ + 1]
  /\ UNCHANGED <<pagefindInstance, loaderFails, calls, queries, handleWrites, lastQuery,
                 utilVars, filterVars>>

\* reset(): the three counters are 0 again
reset ==
  /\ searchStats' = NoStats
  /\ UNCHANGED <<pagefindInstance, loaderFails, calls, queries, handleWrites, lastQuery,
                 utilVars, filterVars>>

\* getStats().successRate, in percent; the quotient is rounded down here
successRate(S) ==
  IF S.searches > 0 THEN ((S.searches - S.failedSearches) * 100) \div S.searches ELSE 0

StatsNext ==
  \/ \E n \in 0..MaxHandles : recordSearch(n)
  \/ recordFailure
  \/ reset

(***************************************************************************)
(* Search client: debounce                                                 *)
(***************************************************************************)
\* the delay of the documented example: debounce(fn, 300)
SearchDelay == 300

\* the arguments of the invocations: a query as it is typed
Typed == {"des", "desi", "design"}

\* largest number of invocations counted in one series
MaxSeries == 3

\* a debounced function that was never invoked: timeoutId is null
NoDebounce ==
  [ timers |-> {}, invoked |-> 0, sinceLast |-> SearchDelay, lastArgs |-> "",
    executed |-> 0, ranArgs |-> "", ranAfter |-> 0 ]

\* the returned function without the clearTimeout
debounceKeepsPending(timers, args) ==
  timers \cup {[remaining |-> SearchDelay, args |-> args]}

\* the returned function, on the pending timeouts: clearTimeout(timeoutId)
\* if there is one, then setTimeout with the arguments of this invocation
debounce(timers, args) == {[remaining |-> SearchDelay, args |-> args]}

\* the debounced function is invoked with `args`; a series starts with an
\* invocation that finds no timeout pending
Invoke(args) ==
  /\ debounced' =
       [debounced EXCEPT !.timers = debounce(@, args),
                         !.invoked = IF debounced.timers = {} THEN 1
                                     ELSE Min(@ + 1, MaxSeries),
                         !.executed = IF debounced.timers = {} THEN 0 ELSE @,
                         !.sinceLast = 0,
                         !.lastArgs = args]
  /\ UNCHANGED <<pagefindInstance, loaderFails, calls, queries, searchStats, handleWrites,
                 lastQuery, highlight, filterVars>>

\* a timeout expires: fn.apply(this, args); timeoutId = null
TimeoutFires(t) ==
  /\ t \in debounced.timers
  /\ t.remaining = 0
  /\ debounced' = [debounced EXCEPT !.timers = @ \ {t},
                                    !.executed = Min(@ + 1, 2),
                                    !.ranArgs = t.args,
                                    !.ranAfter = debounced.sinceLast]
  /\ UNCHANGED <<pagefindInstance, loaderFails, calls, queries, searchStats, handleWrites,
                 lastQuery, highlight, filterVars>>

\* time passes, up to the next timeout
Elapse ==
  /\ debounced.timers # {}
  /\ \A t \in debounced.timers : t.remaining > 0
  /\ LET d == Min(TickMs, MinOf({ t.remaining : t \in debounced.timers }))
     IN  debounced' = [debounced EXCEPT
                         !.timers = { [t EXCEPT !.remaining = @ - d] : t \in @ },
                         !.sinceLast = Min(@ + d, SearchDelay)]
  /\ UNCHANGED <<pagefindInstance, loaderFails, calls, queries, searchStats, handleWrites,
                 lastQuery, highlight, filterVars>>

DebounceNext ==
  \/ \E args \in Typed : Invoke(args)
  \/ \E t \in debounced.timers : TimeoutFires(t)
  \/ Elapse

(***************************************************************************)
(* Search client: highlightSearchTerms                                     *)
(***************************************************************************)
\* longest text and longest query
MaxTextLen == 3
MaxQueryLen == 3

\* the characters of the texts and of the queries: a letter in both cases,
\* two regex metacharacters, and (in queries) the blank
TextChars == {"a", "A", ".", "$"}
QueryChars == TextChars \cup {" "}

Strings(chars, n) == UNION { [1..k -> chars] : k \in 0..n }

\* the markers put around a match; one element of the output each
MarkOpen == "<mark>"
MarkClose == "</mark>"

\* String.prototype.toLowerCase, and the case folding of the i flag
LowerChar(c) == IF c = "A" THEN "a" ELSE c
Lower(str) == [k \in 1..Len(str) |-> LowerChar(str[k])]

\* String.prototype.split(/\s+/): the pieces between the runs of whitespace
RECURSIVE SplitWhitespace(_)
SplitWhitespace(str) ==
  IF str = <<>> THEN << <<>> >>
  ELSE IF IsSpace(Head(str))
       THEN << <<>> >> \o SplitWhitespace(TrimLeft(Tail(str)))
       ELSE LET rest == SplitWhitespace(Tail(str))
            IN  << <<Head(str)>> \o Head(rest) >> \o Tail(rest)

\* the characters of the class [.*+?^${}()|[\]\\]
MetaChars == {".", "*", "+", "?", "^", "$", "{", "}", "(", ")", "|", "[", "]", "\\"}

\* the terms put into the pattern as they are
escapeNothing(term) == term

\* term.replace(/[.*+?^${}()|[\]\\]/g, "\\$&"): a backslash before each
\* metacharacter
RECURSIVE escapeTerm(_)
escapeTerm(term) ==
  IF term = <<>> THEN <<>>
  ELSE (IF Head(term) \in MetaChars THEN <<"\\", Head(term)>> ELSE <<Head(term)>>)
         \o escapeTerm(Tail(term))

\* one alternative of the pattern as the regex engine reads it: an escaped
\* character is that character, "." is any character, "$" is the end of
\* the input, another character is itself
RECURSIVE Atoms(_)
Atoms(src) ==
  IF src = <<>> THEN <<>>
  ELSE IF Head(src) = "\\" /\ Len(src) >= 2
       THEN <<[kind |-> "char", c |-> src[2]]>> \o Atoms(Tail(Tail(src)))
       ELSE IF Head(src) = "."
            THEN <<[kind |-> "any", c |-> "."]>> \o Atoms(Tail(src))
            ELSE IF Head(src) = "$"
                 THEN <<[kind |-> "end", c |-> "$"]>> \o Atoms(Tail(src))
                 ELSE <<[kind |-> "char", c |-> Head(src)]>> \o Atoms(Tail(src))

\* the alternative matches the text from position `pos` on: the position
\* after the match, or 0 when it does not match (flag i: case is ignored)
RECURSIVE MatchAt(_, _, _)
MatchAt(atoms, text, pos) ==
  IF atoms = <<>> THEN pos
  ELSE LET a == Head(atoms)
       IN  IF a.kind = "end"
           THEN IF pos = Len(text) + 1 THEN MatchAt(Tail(atoms), text, pos) ELSE 0
           ELSE IF pos > Len(text) THEN 0
           ELSE IF a.kind = "any" \/ LowerChar(text[pos]) = LowerChar(a.c)
                THEN MatchAt(Tail(atoms), text, pos + 1)
                ELSE 0

\* the alternation (t1|t2|..) at `pos`: the first alternative that matches
RECURSIVE FirstMatch(_, _, _)
FirstMatch(alts, text, pos) ==
  IF alts = <<>> THEN 0
  ELSE LET e == MatchAt(Head(alts), text, pos)
       IN  IF e # 0 THEN e ELSE FirstMatch(Tail(alts), text, pos)

\* text.replace(pattern, "<mark>$1</mark>") with the flag g, from `pos` on:
\* the leftmost match is wrapped and the scan goes on behind it (one
\* character further after an empty match)
RECURSIVE ReplaceFrom(_, _, _)
ReplaceFrom(alts, text, pos) ==
  IF pos > Len(text) + 1 THEN <<>>
  ELSE LET e == FirstMatch(alts, text, pos)
       IN  IF e = 0
           THEN IF pos > Len(text) THEN <<>>
                ELSE <<text[pos]>> \o ReplaceFrom(alts, text, pos + 1)
           ELSE IF e = pos
                THEN <<MarkOpen, MarkClose>>
                       \o (IF pos > Len(text) THEN <<>> ELSE <<text[pos]>>)
                       \o ReplaceFrom(alts, text, pos + 1)
                ELSE <<MarkOpen>> \o SubSeq(text, pos, e - 1) \o <<MarkClose>>
                       \o ReplaceFrom(alts, text, e)

\* highlightSearchTerms(text, query); nothing in the try block throws for a
\* string, and the catch block returns the text
highlightSearchTerms(text, query) ==
  LET validQuery == validateQuery(query)
  IN  IF validQuery.isNull \/ text = <<>> THEN text
      ELSE LET terms == FilterBoolean(SplitWhitespace(Lower(validQuery.val)))
               escapedTerms == [k \in 1..Len(terms) |-> escapeTerm(terms[k])]
           IN  IF Len(terms) = 0 THEN text
               ELSE ReplaceFrom([k \in 1..Len(terms) |-> Atoms(escapedTerms[k])], text, 1)

\* the texts and the queries of the calls
Texts == Strings(TextChars, MaxTextLen)
HighlightQueries ==
  {[isString |-> FALSE, text |-> <<>>]}
    \cup {[isString |-> TRUE, text |-> t] : t \in Strings(QueryChars, MaxQueryLen)}

NoHighlight ==
  [text |-> <<>>, query |-> [isString |-> TRUE, text |-> <<>>], out |-> <<>>, done |-> FALSE]

HighlightInit ==
  /\ debounced = NoDebounce
  /\ \E t \in Texts, q \in HighlightQueries :
       highlight = [NoHighlight EXCEPT !.text = t, !.query = q]

\* the call returns
Highlight ==
  /\ ~highlight.done
  /\ highlight' = [highlight EXCEPT !.out = highlightSearchTerms(highlight.text, highlight.query),
                                    !.done = TRUE]
  /\ UNCHANGED <<pagefindInstance, loaderFails, calls, queries, searchStats, handleWrites,
                 lastQuery, debounced, filterVars>>

HighlightNext == Highlight

\* no helper of the search client is in use
UtilIdle ==
  /\ debounced = NoDebounce
  /\ highlight = NoHighlight

\* the search client before any query
SearchIdle ==
  /\ pagefindInstance = "null"
  /\ loaderFails = FALSE
  /\ calls = [c \in CallIds |-> NoCall]
  /\ queries = [q \in QueryIds |-> NoQuery]
  /\ searchStats = NoStats
  /\ handleWrites = 0
  /\ lastQuery = NoLastQuery

\* a page without a query string whose script has not run
FilterIdle ==
  /\ url = NoParam
  /\ instance = NoSession
  /\ orphanTimers = {}
  /\ frames = <<>>
  /\ dom = InitialDom
  /\ last = [op |-> "load", hadParam |-> FALSE, elapsed |-> 0, stale |-> FALSE,
             created |-> FALSE, raised |-> FALSE, afterRaise |-> FALSE,
             ran |-> 0, provider |-> "untracked", tracking |-> "untracked"]
  /\ snap = NoSnap
  /\ anchors = Anchors
  /\ pathname = SectionPath
  /\ currentPath = SectionPath
  /\ nav = NoNav

vars == <<url, instance, orphanTimers, frames, dom, last, snap,
          anchors, pathname, currentPath, nav,
          pagefindInstance, loaderFails, calls, queries, searchStats, handleWrites,
          lastQuery, debounced, highlight>>

Init == FilterInit /\ SearchIdle /\ UtilIdle

Next == FilterNext

\* the filter engine
Spec == Init /\ [][Next]_vars

InitSearch == SearchInit /\ FilterIdle /\ UtilIdle

\* the filter engine under client-side navigation
NavSpec == Init /\ [][NavNext]_vars

\* setInterval is never cleared: as long as the page lives its callback
\* keeps being called
NavFairSpec == Init /\ [][NavNext]_vars /\ WF_vars(cleanupInterval)

\* the search client: the loader
SearchSpec == InitSearch /\ [][SearchNext]_vars

\* the search client: queries and preloads
QuerySpec == InitSearch /\ [][QueryNext]_vars

\* nothing has run yet
InitIdle == FilterIdle /\ SearchIdle /\ UtilIdle

\* the statistics tracker
StatsSpec == InitIdle /\ [][StatsNext]_vars

\* a debounced function
DebounceSpec == InitIdle /\ [][DebounceNext]_vars

InitHighlight == FilterIdle /\ SearchIdle /\ HighlightInit

\* highlightSearchTerms on every text and query within the bounds
HighlightSpec == InitHighlight /\ [][HighlightNext]_vars

(***************************************************************************)
(* Vocabulary of the properties                                            *)
(***************************************************************************)
\* the tags the URL lists
UrlTagSet == IF url.has THEN TagSetOf(url.val) ELSE {}

\* the tag set of an item
ItemTagSet(i) ==
  IF ItemTagsAttr(i).isNull THEN {} ELSE TagSetOf(ItemTagsAttr(i).val)

\* the strings of S in ascending order, each once
Ascending(S) ==
  CHOOSE q \in [1..Cardinality(S) -> S] :
    /\ Range(q) = S
    /\ \A i \in 1..Len(q), j \in 1..Len(q) : i < j => StrLess(q[i], q[j])

RECURSIVE CommaJoined(_, _)
CommaJoined(q, n) ==
  IF n = 0 THEN <<>>
  ELSE IF n = 1 THEN q[1]
       ELSE CommaJoined(q, n - 1) \o <<",">> \o q[n]

\* the canonical `tags` value of a non-empty tag set
CanonicalValue(S) == CommaJoined(Ascending(S), Cardinality(S))

\* the URL that represents a tag set
CanonicalParam(S) == IF S = {} THEN NoParam ELSE Param(CanonicalValue(S))

AllVisible == \A i \in Items : dom.display[i] = ""

\* the singular nouns a section type stands for
SectionLabels == {SectionType, "post"}

(***************************************************************************)
(* Properties                                                              *)
(***************************************************************************)
\* C1: in a live session whose pending animation-frame callbacks have all
\* run, an item is displayed iff no tag is active or the item's tag set
\* shares a tag with the active tags (OR across the selected tags).
OrSemantics ==
  (IsLive /\ frames = <<>>) =>
     \A i \in Items :
       (dom.display[i] = "") <=>
         (ActiveSet = {} \/ ItemTagSet(i) \cap ActiveSet # {})

\* two tags are selected; the item that carries only one of them is shown
\* and the item without tags is hidden
OrSemanticsWitness ==
  /\ IsLive
  /\ frames = <<>>
  /\ last.op = "RunFrame"
  /\ ActiveSet = {TagA, TagAB}
  /\ dom.display[1] = "" /\ dom.display[2] = "" /\ dom.display[3] = "none"

\* C2: a burst of toggles, each less than 500 ms after the one before, is
\* followed by exactly one debounced URL write, 500 ms after the last
\* toggle, and the write serializes the active tags as they are when it runs.
DebounceCoalesces ==
  /\ last.op = "TimerFire" =>
       /\ last.elapsed = DEBOUNCE_DELAY
       /\ url = CanonicalParam(IF last.stale THEN {} ELSE ActiveSet)
  /\ (IsLive /\ instance.toggled) =>
       /\ instance.timers = {} => instance.writes = 1
       /\ instance.timers # {} =>
            /\ instance.writes = 0
            /\ instance.timers = {DEBOUNCE_DELAY - instance.elapsed}

\* the single write of a burst of at least two toggles has just happened
DebounceCoalescesWitness ==
  /\ last.op = "TimerFire"
  /\ ~last.stale
  /\ instance.coalesced
  /\ instance.writes = 1
  /\ instance.activeFilters # <<>>
  /\ url = CanonicalParam(ActiveSet)

\* C3: after a session is destroyed, events on its former controls change
\* nothing, and no timer or animation-frame callback it scheduled before
\* the teardown changes the URL or the elements.
DestroyedSessionInert ==
  [][ /\ (last'.op \in {"Click", "KeyDown", "ClearAll"} /\ last'.stale) =>
           UNCHANGED <<url, instance, orphanTimers, frames, dom>>
      /\ (last'.op = "TimerFire" /\ last'.stale) => url' = url
      /\ (last'.op = "RunFrame" /\ last'.stale) => dom' = dom ]_vars

\* C4: whenever a session is live and no URL write is pending, the tags
\* the URL lists are the session's active tags.
UrlMirrorsActiveTags ==
  (IsLive /\ PendingTimers = {}) => UrlTagSet = ActiveSet

\* C5: a reload at any moment gives a session with the active tags the old
\* session had just before.
ReloadKeepsTags ==
  [][ (last'.op = "Reload" /\ IsLive) =>
         Range(instance'.activeFilters) = ActiveSet ]_vars

\* C6: a URL write with active tags writes the ascending, comma-joined list
\* of the tags, each once, whatever the order they were selected in.
CanonicalTagsValue ==
  (last.op = "TimerFire" /\ ~last.stale /\ instance.activeFilters # <<>>) =>
     url = Param(CanonicalValue(ActiveSet))

\* "ab" was selected before "a", and the value written is "a,ab"
CanonicalTagsValueWitness ==
  /\ last.op = "TimerFire"
  /\ ~last.stale
  /\ instance.activeFilters = <<TagAB, TagA>>
  /\ url = Param(<<"a", ",", "a", "b">>)

\* C7: a session constructed from a URL that lists the tag set T has the
\* active tags T and, after its first frame, renders what a session
\* constructed without the parameter and toggled once per tag of T renders.
BootstrapMatchesToggles ==
  /\ last.created => (IsLive /\ ActiveSet = UrlTagSet)
  /\ (snap.valid /\ frames = <<>>) =>
        /\ IsLive
        /\ ActiveSet = snap.tags
        /\ dom = snap.dom

\* the page was opened with "?tags= a ,,ab" after both tags had been toggled
BootstrapMatchesTogglesWitness ==
  /\ snap.valid
  /\ frames = <<>>
  /\ last.op = "RunFrame"
  /\ snap.tags = {TagA, TagAB}
  /\ url = Param(<<" ", "a", " ", ",", ",", "a", "b">>)
  /\ dom.display[3] = "none"

\* C8: ClearAll empties the active tags and, after the frame, every item is
\* shown and the count reads "{total} {label}s total".
ClearAllShowsTotal ==
  (IsLive /\ instance.cleared) =>
     /\ instance.activeFilters = <<>>
     /\ frames = <<>> =>
          /\ AllVisible
          /\ \E label \in SectionLabels :
               dom.countText =
                 ToString(Cardinality(Items)) \o " " \o label \o "s total"

\* C9: ClearAll writes the URL within the action itself, and the URL it
\* leaves has no tags parameter.
ClearAllWritesAtOnce ==
  (last.op = "ClearAll" /\ ~last.stale) => ~url.has

\* ClearAll removed the parameter while the debounce of a toggle is pending
ClearAllWritesAtOnceWitness ==
  /\ last.op = "ClearAll"
  /\ ~last.stale
  /\ last.hadParam
  /\ ~url.has
  /\ PendingTimers # {}
  /\ 0 \notin PendingTimers

\* C10: with no cached handle and a loader that fails every time,
\* loadPagefind(n), n >= 1, makes exactly n imports and rejects, the handle
\* stays unloaded, and a later call imports again from the first attempt.
RetryExhaustion ==
  loaderFails =>
    /\ pagefindInstance = "null"
    /\ \A c \in CallIds :
         /\ calls[c].pc # "resolved"
         /\ calls[c].retries >= 1 => calls[c].imports <= calls[c].retries
         /\ calls[c].pc \in {"importing", "sleeping"} =>
              calls[c].imports = calls[c].attempt
         /\ (calls[c].pc = "rejected" /\ calls[c].retries >= 1) =>
              calls[c].imports = calls[c].retries

\* a call made after a rejected one was rejected after its own three imports
RetryExhaustionWitness ==
  /\ loaderFails
  /\ \E c \in CallIds :
       /\ calls[c].afterReject
       /\ calls[c].pc = "rejected"
       /\ calls[c].retries = DEFAULT_RETRY_ATTEMPTS
       /\ calls[c].imports = DEFAULT_RETRY_ATTEMPTS

\* C11: between two resets the cached handle is assigned at most once, by
\* the first load that succeeds, however the calls overlap; and a call made
\* while the handle is set returns it without an import.
HandleWrittenOnce ==
  [][ /\ handleWrites' <= 1
      /\ \A c \in CallIds :
           (pagefindInstance # "null" /\ Settled(calls[c].pc) /\ calls'[c] # calls[c]) =>
              (calls'[c].pc = "resolved" /\ calls'[c].imports = 0) ]_vars

\* C12: a performSearch call whose search ran and that returns adds one
\* search with its result count to the statistics, and a call that throws
\* adds one failed search.
SearchesRecorded ==
  [][ \A q \in QueryIds :
        /\ (queries[q].pc = "searching" /\ queries'[q].pc = "resolved") =>
              searchStats' =
                [searchStats EXCEPT !.searches = @ + 1,
                                    !.totalResults = @ + Len(lastQuery'.result)]
        /\ (queries[q].pc \in {"loading", "searching"} /\ queries'[q].pc = "rejected") =>
              searchStats' = [searchStats EXCEPT !.failedSearches = @ + 1] ]_vars

\* a value that is not a string, or a string of whitespace only
IsBlank(x) == ~x.isString \/ \A k \in 1..Len(x.text) : x.text[k] = " "

\* q lists the elements of S in ascending order, each once
AscendingList(q, S) ==
  /\ Range(q) = S
  /\ \A i \in 1..Len(q), j \in 1..Len(q) : i < j => q[i] < q[j]

\* C13: when some of the handles fail to materialize, the call resolves
\* with the results of the handles that materialized, in index order, and
\* no failed search is counted.
PartialMaterialization ==
  lastQuery.kind = "results" =>
    /\ lastQuery.outcome = "resolved"
    /\ AscendingList(lastQuery.result,
                     { k \in 1..lastQuery.started : lastQuery.handles[k] })
    /\ searchStats.failedSearches = 0

\* of three handles the second failed to materialize: the first and the
\* third are returned
PartialMaterializationWitness ==
  /\ lastQuery.kind = "results"
  /\ lastQuery.outcome = "resolved"
  /\ lastQuery.handles = <<TRUE, FALSE, TRUE>>
  /\ lastQuery.started = 3
  /\ lastQuery.result = <<1, 3>>

\* C14: performSearch rejects only when the index load is exhausted; when
\* the query primitive throws, it resolves with no results.
QueryThrowDegrades ==
  /\ lastQuery.outcome = "rejected" => lastQuery.kind = "loadFailed"
  /\ lastQuery.kind = "threw" =>
       (lastQuery.outcome = "resolved" /\ lastQuery.result = <<>>)

\* C15: performSearch of a value that is not a string, or of an empty or
\* whitespace-only string, resolves with no results; it starts no load and
\* changes neither the cached handle nor the statistics.
BlankQueryShortCircuit ==
  [][ /\ \A q \in QueryIds : queries'[q].pc = "loading" => ~IsBlank(queries'[q].query)
      /\ (lastQuery' # lastQuery /\ lastQuery'.kind = "blank") =>
            /\ IsBlank(lastQuery')
            /\ lastQuery'.outcome = "resolved"
            /\ lastQuery'.result = <<>>
            /\ UNCHANGED <<calls, pagefindInstance, handleWrites, searchStats>> ]_vars

\* a whitespace-only query returned while nothing was loaded
BlankQueryShortCircuitWitness ==
  /\ lastQuery.kind = "blank"
  /\ lastQuery.isString
  /\ lastQuery.text = <<" ", " ">>
  /\ lastQuery.result = <<>>
  /\ pagefindInstance = "null"
  /\ handleWrites = 0
  /\ \A c \in CallIds : calls[c] = NoCall

\* C16: with maxResults = m, m >= 0, materialization starts for the first
\* min(m, number of handles) handles only, and at most m results are returned.
MaxResultsCap ==
  (lastQuery.kind = "results" /\ lastQuery.maxResults.given) =>
     /\ lastQuery.started = Min(lastQuery.maxResults.n, Len(lastQuery.handles))
     /\ Len(lastQuery.result) <= lastQuery.maxResults.n

\* the page script or a page load has just run the initialization
Initialized == last.op \in {"initializeFilters", "Reload", "OpenURL"}

\* C17: when a required element is missing, the initialization raises and
\* leaves nothing behind: no instance is registered and no callback or
\* listener of a new object exists; an initialization with every element
\* present then gives a registered session built from the URL.
MissingAnchorFails ==
  /\ (Initialized /\ ~(Anchors \subseteq anchors)) =>
        /\ last.raised
        /\ instance = NoSession
        /\ \A k \in 1..Len(frames) : frames[k].owner # "live"
  /\ (Initialized /\ Anchors \subseteq anchors) =>
        /\ ~last.raised
        /\ IsLive
        /\ last.created =>
             /\ IsWired
             /\ ActiveSet = UrlTagSet
             /\ instance.timers = {}

\* after an initialization that raised for a missing clear-all control, the
\* page with every element gives a session with the tag of the URL
MissingAnchorFailsWitness ==
  /\ last.created
  /\ last.afterRaise
  /\ IsWired
  /\ anchors = Anchors
  /\ ActiveSet = {TagA}

\* C18: the active tags of a live session are ids of the tag registry.
ActiveTagsKnown ==
  IsLive => ActiveSet \subseteq TagIds

\* C20: once the frame after a bootstrap, a toggle or a clear-all has run,
\* every filter button has aria-pressed "true" if its tag is active and
\* "false" otherwise.
PressedMirrorsActive ==
  (IsLive /\ frames = <<>>) =>
     \A c \in Controls :
       dom.pressed[c] = IF c \in ActiveSet THEN "true" ELSE "false"

\* "a" was pressed and released again while "ab" stays pressed
PressedMirrorsActiveWitness ==
  /\ IsLive
  /\ frames = <<>>
  /\ last.op = "RunFrame"
  /\ instance.toggled
  /\ instance.activeFilters = <<TagAB>>
  /\ dom.pressed[TagAB] = "true"
  /\ dom.pressed[TagA] = "false"
  /\ url = Param(<<"a">>)

\* C19: when the navigation handler has run for a navigation that leaves
\* the base section of the page, no session is registered any more: it was
\* destroyed before the destination page is in place.
NavigationDestroysSessions ==
  ( /\ last.op = "BeforePreparation"
    /\ nav.phase = "prepared"
    /\ getBaseSection(nav.from) # getBaseSection(nav.to) ) => instance = NoSession

\* the items the active tags select: all of them when no tag is active
Selected ==
  { i \in Items : ActiveSet = {} \/ ItemTagSet(i) \cap ActiveSet # {} }

\* the tags a step added to or removed from the active tags
Flipped == (ActiveSet' \ ActiveSet) \cup (ActiveSet \ ActiveSet')

\* C21: the count text reads "{visible} of {total} {label}s" while a tag is
\* active and "{total} {label}s total" otherwise (here with or without the
\* word "Showing" in front).
CountTextFormat ==
  (IsLive /\ frames = <<>>) =>
     \E label \in SectionLabels, lead \in {"", "Showing "} :
       dom.countText =
         IF ActiveSet # {}
         THEN lead \o ToString(Cardinality(Selected)) \o " of "
                \o ToString(Cardinality(Items)) \o " " \o label \o "s"
         ELSE ToString(Cardinality(Items)) \o " " \o label \o "s total"

\* C23: when the analytics provider throws in a Toggle or a ClearAll, the
\* error is caught inside trackEvent and the step is the one a successful
\* emission gives: the tag flipped (or the tags cleared), one updateUI and
\* one filterItems callback queued, the URL write pending (or, for
\* ClearAll, done).
AnalyticsFailureContained ==
  [][ (last'.provider = "throws" /\ ~last'.stale) =>
        /\ last'.tracking = "caught"
        /\ frames' = frames \o Scheduled(instance'.activeFilters)
        /\ dom' = dom
        /\ last'.op = "ClearAll" =>
              /\ ActiveSet' = {}
              /\ url' = NoParam
              /\ instance'.timers = instance.timers
        /\ last'.op # "ClearAll" =>
              /\ Cardinality(Flipped) = 1
              /\ url' = url
              /\ instance'.timers = {DEBOUNCE_DELAY} ]_vars

\* the provider threw in a ClearAll that removed the parameter from the URL
AnalyticsFailureContainedWitness ==
  /\ last.op = "ClearAll"
  /\ last.provider = "throws"
  /\ last.hadParam
  /\ ~url.has
  /\ IsLive
  /\ instance.activeFilters = <<>>
  /\ Len(frames) >= 2

\* C25: in a live session, once every callback given to
\* requestAnimationFrame so far has run, the display of each item and the
\* count text are the ones the current active tags give, however many
\* toggles ran before the frame.
FrameSettles ==
  (IsLive /\ frames = <<>>) =>
     /\ \A i \in Items : (dom.display[i] = "") <=> (i \in Selected)
     /\ dom.countText = updateResultsCount(Cardinality(Selected), instance.activeFilters)

\* two toggles ran before one frame: a tag was selected and released again,
\* so the first filterItems callback had captured hasFilters = true
FrameSettlesWitness ==
  /\ IsLive
  /\ last.op = "RunFrame"
  /\ last.ran = 2 * MaxPendingOps
  /\ ~last.hadParam
  /\ instance.coalesced
  /\ instance.elapsed = 0
  /\ instance.activeFilters = <<>>
  /\ ~instance.cleared
  /\ AllVisible

\* the document holds an element with the id of the control container
ContainerInDocument == "filterTags" \in anchors

\* C26: initializeFilters on a section whose session is registered and
\* valid changes nothing: the session, its active tags, its pending URL
\* write and the queued callbacks stay, no new object and no new listener
\* exists; a click on a control then toggles its tag once and queues one
\* updateUI and one filterItems callback.
SingleSession ==
  [][ /\ (last'.op = "initializeFilters" /\ IsLive /\ ContainerInDocument) =>
           /\ instance' = instance
           /\ frames' = frames
           /\ orphanTimers' = orphanTimers
           /\ url' = url
           /\ dom' = dom
           /\ ~last'.created
      /\ (last'.op = "Click" /\ ~last'.stale) =>
           /\ Cardinality(Flipped) = 1
           /\ Len(frames') = Len(frames) + 2 ]_vars

\* initializeFilters ran again while a toggle's URL write and callbacks
\* were pending, and the session kept them
SingleSessionWitness ==
  /\ last.op = "initializeFilters"
  /\ ~last.created
  /\ ~last.raised
  /\ IsLive
  /\ instance.toggled
  /\ instance.timers # {}
  /\ frames # <<>>
  /\ ActiveSet # {}

\* C27: when a session is registered and initializeFilters has treated it
\* as valid, its listeners are on the control container that is in the
\* document, also after a navigation inside the section put new elements
\* with the same ids in place of the old ones.
ListenersOnCurrentContainer ==
  (last.op = "initializeFilters" /\ IsLive /\ ContainerInDocument) => instance.attached

\* C28: a registered session whose control container has left the document
\* is eventually destroyed and removed from the registry (by the periodic
\* cleanup, if no initialization or navigation does it before), unless the
\* container is in the document again.
StaleSessionRemoved ==
  (IsLive /\ ~ContainerInDocument) ~> (~IsLive \/ ContainerInDocument)

\* the periodic cleanup removed the session of a page the user had left
\* with a URL write pending
StaleSessionRemovedWitness ==
  /\ last.op = "cleanupInterval"
  /\ ~last.stale
  /\ instance = NoSession
  /\ ~ContainerInDocument
  /\ orphanTimers # {}
  /\ nav.phase = "idle"

\* C30: a loadPagefind call with retries <= 0 that finds no cached handle
\* rejects at once and never imports; a performSearch of a valid query with
\* options.retries <= 0 therefore rejects without an import.
NoRetriesNoAttempt ==
  [][ /\ \A c \in CallIds :
           ( /\ Settled(calls[c].pc)
             /\ calls'[c] # calls[c]
             /\ calls'[c].pc # "idle"
             /\ calls'[c].retries <= 0
             /\ pagefindInstance = "null" ) =>
               /\ calls'[c].pc = "rejected"
               /\ calls'[c].imports = 0
               /\ pagefindInstance' = "null"
      /\ (lastQuery' # lastQuery /\ lastQuery'.kind = "loadFailed" /\ lastQuery'.retries <= 0) =>
           /\ lastQuery'.imports = 0
           /\ lastQuery'.outcome = "rejected" ]_vars

\* a performSearch with retries = 0 was rejected without an import although
\* the index would have loaded
NoRetriesNoAttemptWitness ==
  /\ lastQuery.kind = "loadFailed"
  /\ lastQuery.outcome = "rejected"
  /\ lastQuery.retries = 0
  /\ lastQuery.imports = 0
  /\ ~loaderFails
  /\ pagefindInstance = "null"
  /\ handleWrites = 0

\* C29: after any sequence of recordSearch, recordFailure and reset calls
\* failedSearches <= searches, and the success rate is within 0..100.
FailuresWithinSearches ==
  /\ searchStats.failedSearches <= searchStats.searches
  /\ successRate(searchStats) \in 0..100

\* C22: a series of invocations of a debounced function, each made while
\* the timeout of the one before is pending, executes fn once: when the
\* delay has passed since the last invocation, with the arguments of the
\* last invocation; while the timeout is pending nothing of the series has
\* been executed.
DebounceLastWins ==
  /\ Cardinality(debounced.timers) <= 1
  /\ \A t \in debounced.timers :
       /\ debounced.executed = 0
       /\ t.args = debounced.lastArgs
       /\ t.remaining = SearchDelay - debounced.sinceLast
  /\ (debounced.timers = {} /\ debounced.invoked >= 1) =>
       /\ debounced.executed = 1
       /\ debounced.ranArgs = debounced.lastArgs
       /\ debounced.ranAfter = SearchDelay

\* the documented example: "des", "desi", "design" in one series, and
\* "design" alone was executed
DebounceLastWinsWitness ==
  /\ debounced.timers = {}
  /\ debounced.invoked >= 3
  /\ debounced.executed = 1
  /\ debounced.lastArgs = "design"
  /\ debounced.ranArgs = "design"
  /\ debounced.ranAfter = SearchDelay

\* an element of the output is a marker
IsMarker(x) == x \in {MarkOpen, MarkClose}

\* the output without its markers
Plain(out) == SelectSeq(out, LAMBDA x : ~IsMarker(x))

\* the number of characters of the text among the first k elements
TextPos(out, k) == Cardinality({ j \in 1..k : ~IsMarker(out[j]) })

\* every opening marker is closed before the next marker, every closing
\* marker closes the marker before it
WellMarked(out) ==
  LET Markers == { k \in 1..Len(out) : IsMarker(out[k]) }
      NextMarker(k) == CHOOSE j \in Markers : j > k /\ \A m \in Markers : m > k => j <= m
      PrevMarker(k) == CHOOSE j \in Markers : j < k /\ \A m \in Markers : m < k => m <= j
  IN  \A k \in Markers :
        IF out[k] = MarkOpen
        THEN (\E j \in Markers : j > k) /\ out[NextMarker(k)] = MarkClose
        ELSE (\E j \in Markers : j < k) /\ out[PrevMarker(k)] = MarkOpen

\* the pieces of the text that are wrapped: <<first, last>> positions
Wrapped(out) ==
  { <<TextPos(out, p[1]) + 1, TextPos(out, p[2])>> :
      p \in { x \in (1..Len(out)) \X (1..Len(out)) :
                /\ x[1] < x[2]
                /\ out[x[1]] = MarkOpen
                /\ out[x[2]] = MarkClose
                /\ \A k \in (x[1] + 1)..(x[2] - 1) : ~IsMarker(out[k]) } }

\* the whitespace-delimited terms of a query, in lower case
QueryTerms(query) ==
  IF ~query.isString THEN {}
  ELSE LET str == query.text
           n == Len(str)
       IN  { Lower(SubSeq(str, x[1], x[2])) :
               x \in { y \in (1..n) \X (1..n) :
                         /\ y[1] <= y[2]
                         /\ \A k \in y[1]..y[2] : ~IsSpace(str[k])
                         /\ y[1] = 1 \/ IsSpace(str[y[1] - 1])
                         /\ y[2] = n \/ IsSpace(str[y[2] + 1]) } }

\* the occurrences of the terms in a text, case ignored, the terms taken
\* literally: <<first, last>> positions
Occurrences(text, query) ==
  { x \in (1..Len(text)) \X (1..Len(text)) :
      x[1] <= x[2] /\ Lower(SubSeq(text, x[1], x[2])) \in QueryTerms(query) }

\* C24 as stated: highlightSearchTerms wraps every occurrence of every term
\* of the query (case ignored, the term taken literally) and changes
\* nothing else; a query without a term gives the text back.
EveryOccurrenceWrapped ==
  highlight.done =>
    /\ Plain(highlight.out) = highlight.text
    /\ WellMarked(highlight.out)
    /\ Wrapped(highlight.out) = Occurrences(highlight.text, highlight.query)

\* C24, amended: the markers are put around occurrences of the terms only
\* and the text is otherwise unchanged; an occurrence that is not wrapped
\* begins inside a wrapped occurrence that begins no later (matches are
\* taken from left to right and do not overlap); a query without a term
\* gives the text back.
OccurrencesWrappedLeftToRight ==
  highlight.done =>
    LET wrapped == Wrapped(highlight.out)
        occurrences == Occurrences(highlight.text, highlight.query)
    IN  /\ Plain(highlight.out) = highlight.text
        /\ WellMarked(highlight.out)
        /\ wrapped \subseteq occurrences
        /\ \A o \in occurrences \ wrapped :
             \E w \in wrapped : w[1] <= o[1] /\ o[1] <= w[2]
        /\ occurrences = {} => highlight.out = highlight.text

\* "Aaa" and the query "aa": the first two letters are wrapped, whatever
\* their case, and the occurrence that begins at the second letter is not
OccurrencesWrappedLeftToRightWitness ==
  /\ highlight.done
  /\ highlight.text = <<"A", "a", "a">>
  /\ highlight.query = [isString |-> TRUE, text |-> <<"a", "a">>]
  /\ highlight.out = <<MarkOpen, "A", "a", MarkClose, "a">>

====
